---- MODULE Spec2Model ----
(***************************************************************************)
(* Remote-to-Home mirror controller of fluvio-spu                          *)
(* (crates/fluvio-spu/src/mirroring/remote/controller.rs).                 *)
(*                                                                         *)
(* One controller task (dispatch_loop) is modelled with a program counter  *)
(* that stops at every suspension point of the task (sleep, connect, sink  *)
(* writes, read_records, select!).  The leader log, the mirror registry    *)
(* and the home peer are the environment: they move between any two steps  *)
(* of the task.                                                            *)
(***************************************************************************)
EXTENDS Integers, Sequences, FiniteSets, TLC

\* ---------------------------------------------------------------- bounds
MaxLeo == 2          \* the leader log grows up to this log-end-offset
MaxCount == 4        \* cap of the connect_count metric
MaxFailure == 2      \* cap of the connect_failure metric
MaxLoop == 2         \* cap of the loop_count metric
MaxBatch == 2        \* records that fit in max_bytes
MaxSink == 2         \* frames kept per connection
MaxWaits == 64       \* consecutive calls of Backoff::wait

CLUSTER_LOOKUP_SEC == 5
BACKOFF_MIN_SEC == 1
BACKOFF_MAX_SEC == 300
BACKOFF_FACTOR == 2

Isolations == {"ReadCommitted", "ReadUncommitted"}
RemoteIds == {"edge1", "edge2"}
LeaderId == "temp-0"
HomeLeos == 0..MaxLeo
NoHome == [kind |-> "None", remote_id |-> ""]
RegistryEntries ==
    {NoHome, [kind |-> "Remote", remote_id |-> ""]}
        \cup {[kind |-> "Home", remote_id |-> r] : r \in RemoteIds}

VARIABLES
    pc,                  \* position of the controller task
    leader_leo,          \* leader.leo()
    leader_hw,           \* leader.hw()
    isolation,           \* self.isolation
    listener_last,       \* offset last observed by offset_listener
    mirror_store,        \* registry entry of remote_config.home_cluster
    home,                \* the Home found by the last successful lookup
    loop_count,          \* metrics.loop_count
    connect_count,       \* metrics.connect_count
    connect_failure,     \* metrics.connect_failure
    home_leo,            \* metrics.home_leo
    home_updated_needed, \* local flag of sync_mirror_loop
    home_leo_snap,       \* local home_leo read at the top of the loop
    partition_response,  \* the request being built by generate_home_sync
    conn_open,           \* the socket of the current connection is alive
    sink,                \* frames written to home_sink on this connection
    got_update,          \* an UpdateHomeOffsetRequest arrived on this connection
    last_req,            \* leo of the last UpdateHomeOffsetRequest processed
    start_failed,        \* the StartMirrorRequest of this connection failed
    tls,                 \* the flag create_socket_to_home returned with the socket
    home_replica_leo,    \* leo of the home replica (the peer's log)
    inflight,            \* sync requests written and not yet taken by home
    backoff,             \* the ExponentialBackoff of dispatch_loop
    slept                \* seconds of the last backoff sleep, 0 before the first

metrics == <<loop_count, connect_count, connect_failure, home_leo>>
leader == <<leader_leo, leader_hw, isolation>>
env == <<mirror_store, home_replica_leo, inflight>>
locals == <<home_updated_needed, home_leo_snap, partition_response>>
conn == <<conn_open, sink, got_update, start_failed, tls>>
retry == <<backoff, slept>>
vars == <<pc, leader, listener_last, env, home, metrics, locals, conn, last_req,
          retry>>

NoResponse == [leo |-> -1, hw |-> -1, start |-> -1, len |-> 0]

\* ------------------------------------------------------ leader contract
\* the offset the listener of an isolation level follows
ListenedOffset ==
    IF isolation = "ReadCommitted" THEN leader_hw ELSE leader_leo

\* OffsetChangeListener: listen() resolves when the offset differs from the
\* value the listener saw last
has_change == ListenedOffset # listener_last

Min(a, b) == IF a < b THEN a ELSE b

\* leader.read_records(start, max_bytes, isolation): the number of records
\* of a successful read
ReadLens(start) ==
    LET max_offset == ListenedOffset
        avail == IF max_offset > start THEN max_offset - start ELSE 0
    IN  IF avail = 0 THEN {0} ELSE 1..Min(MaxBatch, avail)

\* ------------------------------------------------------ create_backoff
\* variant of create_backoff: the builder is given a max of 600 s
create_backoff_max_600 ==
    [min |-> BACKOFF_MIN_SEC, max |-> 600, count |-> 0,
     delay |-> BACKOFF_MIN_SEC]

\* the backoff holds the bounds given to the builder, the number of delays
\* handed out and the next delay
create_backoff ==
    [min |-> BACKOFF_MIN_SEC, max |-> BACKOFF_MAX_SEC, count |-> 0,
     delay |-> BACKOFF_MIN_SEC]

\* Backoff::wait: the state after handing out b.delay
wait(b) ==
    [b EXCEPT !.count = b.count + 1,
              !.delay = Min(b.max, b.delay * BACKOFF_FACTOR)]

\* ------------------------------------------------------ MirrorControllerState::new
Init ==
    /\ pc = "startup"
    /\ leader_leo = 0
    /\ leader_hw = 0
    /\ isolation \in Isolations
    /\ listener_last = 0
    /\ mirror_store = NoHome
    /\ home = NoHome
    /\ loop_count = 0
    /\ connect_count = 0
    /\ connect_failure = 0
    /\ home_leo = -1
    /\ home_updated_needed = FALSE
    /\ home_leo_snap = -1
    /\ partition_response = NoResponse
    /\ conn_open = FALSE
    /\ sink = <<>>
    /\ got_update = FALSE
    /\ last_req = -1
    /\ start_failed = FALSE
    /\ tls = FALSE
    /\ home_replica_leo = 0
    /\ inflight = <<>>
    /\ backoff = create_backoff
    /\ slept = 0

\* ------------------------------------------------------ environment
\* the leader appends a record
LeaderAppend ==
    /\ leader_leo < MaxLeo
    /\ leader_leo' = leader_leo + 1
    /\ UNCHANGED <<pc, leader_hw, isolation, listener_last, env, home,
                   metrics, locals, conn, last_req,
                   retry>>

\* the leader commits records
LeaderCommit ==
    /\ leader_hw < leader_leo
    /\ \E h \in (leader_hw + 1)..leader_leo : leader_hw' = h
    /\ UNCHANGED <<pc, leader_leo, isolation, listener_last, env, home,
                   metrics, locals, conn, last_req,
                   retry>>

\* the SC changes the mirror registry; only find_home_cluster reads it, so
\* a change made while the task is elsewhere is modelled as made just
\* before the next lookup
RegistryChange ==
    /\ pc \in {"startup", "lookup", "lookup_sleep"}
    /\ \E e \in RegistryEntries : e # mirror_store /\ mirror_store' = e
    /\ UNCHANGED <<pc, leader, listener_last, home, metrics, locals, conn,
                   last_req, home_replica_leo, inflight,
                   retry>>

\* ------------------------------------------------------ dispatch_loop
\* initial delay before the first lookup
StartupSleep ==
    /\ pc = "startup"
    /\ pc' = "lookup"
    /\ UNCHANGED <<leader, listener_last, env, home, metrics, locals, conn,
                   last_req,
                   retry>>

\* variant of find_home_cluster: any entry of the registry counts as the home
find_home_cluster_any_entry ==
    IF mirror_store.kind # "None" THEN mirror_store ELSE NoHome

find_home_cluster ==
    IF mirror_store.kind = "Home" THEN mirror_store ELSE NoHome

\* variant of LookupFound: a new outer iteration starts from an unknown home
\* offset
LookupFound_resets_home_leo ==
    /\ pc = "lookup"
    /\ find_home_cluster # NoHome
    /\ loop_count < MaxLoop
    /\ loop_count' = loop_count + 1
    /\ home' = find_home_cluster
    /\ home_leo' = -1
    /\ pc' = "connect"
    /\ UNCHANGED <<leader, listener_last, env, connect_count,
                   connect_failure, locals, conn, last_req,
                   retry>>

\* variant of LookupFound: the backoff is created inside the retry loop, once
\* for every home that is found
LookupFound_new_backoff ==
    /\ pc = "lookup"
    /\ find_home_cluster # NoHome
    /\ loop_count < MaxLoop
    /\ loop_count' = loop_count + 1
    /\ home' = find_home_cluster
    /\ backoff' = create_backoff
    /\ pc' = "connect"
    /\ UNCHANGED <<leader, listener_last, env, connect_count,
                   connect_failure, home_leo, locals, conn, last_req,
                   slept>>

LookupFound ==
    /\ pc = "lookup"
    /\ find_home_cluster # NoHome
    /\ loop_count < MaxLoop
    /\ loop_count' = loop_count + 1
    /\ home' = find_home_cluster
    /\ pc' = "connect"
    /\ UNCHANGED <<leader, listener_last, env, connect_count,
                   connect_failure, home_leo, locals, conn, last_req,
                   retry>>

LookupMiss ==
    /\ pc = "lookup"
    /\ find_home_cluster = NoHome
    /\ pc' = "lookup_sleep"
    /\ UNCHANGED <<leader, listener_last, env, home, metrics, locals, conn,
                   last_req,
                   retry>>

LookupSleep ==
    /\ pc = "lookup_sleep"
    /\ pc' = "lookup"
    /\ UNCHANGED <<leader, listener_last, env, home, metrics, locals, conn,
                   last_req,
                   retry>>

\* backoff_and_wait: take the delay, sleep, then count the failure
backoff_and_wait(next) ==
    /\ connect_failure < MaxFailure
    /\ slept' = backoff.delay
    /\ backoff' = wait(backoff)
    /\ connect_failure' = connect_failure + 1
    /\ pc' = next

\* ------------------------------------------------------ create_socket_to_home
\* variant of ConnectOk: a new connection forgets the home offset
ConnectOk_forgets_home_leo ==
    /\ pc = "connect"
    /\ connect_count < MaxCount
    /\ connect_count' = connect_count + 1
    /\ home_leo' = -1
    /\ conn_open' = TRUE
    /\ sink' = <<>>
    /\ got_update' = FALSE
    /\ start_failed' = FALSE
    /\ tls' = FALSE
    /\ pc' = "handshake"
    /\ UNCHANGED <<leader, listener_last, env, home, loop_count,
                   connect_failure, locals, last_req,
                   retry>>

\* variant of ConnectOk: every connection gets a listener of its own, which
\* starts from the offset of that moment
ConnectOk_new_listener ==
    /\ pc = "connect"
    /\ connect_count < MaxCount
    /\ connect_count' = connect_count + 1
    /\ listener_last' = ListenedOffset
    /\ conn_open' = TRUE
    /\ sink' = <<>>
    /\ got_update' = FALSE
    /\ start_failed' = FALSE
    /\ tls' = FALSE
    /\ pc' = "handshake"
    /\ UNCHANGED <<leader, env, home, loop_count, connect_failure, home_leo,
                   locals, last_req, retry>>

ConnectOk ==
    /\ pc = "connect"
    /\ connect_count < MaxCount
    /\ connect_count' = connect_count + 1
    /\ conn_open' = TRUE
    /\ sink' = <<>>
    /\ got_update' = FALSE
    /\ start_failed' = FALSE
    /\ tls' = FALSE
    /\ pc' = "handshake"
    /\ UNCHANGED <<leader, listener_last, env, home, loop_count,
                   connect_failure, home_leo, locals, last_req,
                   retry>>

ConnectFail ==
    /\ pc = "connect"
    /\ connect_count < MaxCount
    /\ connect_count' = connect_count + 1
    /\ pc' = "connect_backoff"
    /\ UNCHANGED <<leader, listener_last, env, home, loop_count,
                   connect_failure, home_leo, locals, conn, last_req,
                   retry>>

\* variant of ConnectBackoff: the connector returns after the backoff
ConnectBackoff_returns ==
    /\ pc = "connect_backoff"
    /\ backoff_and_wait("handshake")
    /\ UNCHANGED <<leader, listener_last, env, home, loop_count,
                   connect_count, home_leo, locals, conn, last_req>>

ConnectBackoff ==
    /\ pc = "connect_backoff"
    /\ backoff_and_wait("connect")
    /\ UNCHANGED <<leader, listener_last, env, home, loop_count,
                   connect_count, home_leo, locals, conn, last_req>>

\* ------------------------------------------------------ send_initial_request
\* variant of StartMirrorRequest: the two ids are swapped
StartMirrorRequest_swapped(h) ==
    [type |-> "StartMirrorRequest",
     remote_cluster_id |-> LeaderId,
     remote_replica |-> h.remote_id]

StartMirrorRequest(h) ==
    [type |-> "StartMirrorRequest",
     remote_cluster_id |-> h.remote_id,
     remote_replica |-> LeaderId]

\* leaving sync_mirror_loop drops the socket and the locals of the function
DropConnection ==
    /\ conn_open' = FALSE
    /\ home_updated_needed' = FALSE
    /\ home_leo_snap' = -1
    /\ partition_response' = NoResponse

\* variant of ReturnErr: the failed call ends sync_mirror_loop with Ok
ReturnErr_as_ok ==
    /\ pc' = "lookup"
    /\ DropConnection

\* `?` on a failed call: sync_mirror_loop returns Err to dispatch_loop
ReturnErr ==
    /\ pc' = "sync_err"
    /\ DropConnection

HandshakeOk ==
    /\ pc = "handshake"
    /\ sink' = Append(sink, StartMirrorRequest(home))
    /\ home_updated_needed' = FALSE
    /\ pc' = "loop_top"
    /\ UNCHANGED <<leader, listener_last, env, home, metrics, home_leo_snap,
                   partition_response, conn_open, got_update, start_failed, tls,
                   last_req,
                   retry>>

HandshakeFail ==
    /\ pc = "handshake"
    /\ start_failed' = TRUE
    /\ ReturnErr
    /\ UNCHANGED <<leader, listener_last, env, home, metrics, sink,
                   got_update, tls, last_req,
                   retry>>

\* ------------------------------------------------------ update_from_home
\* the value stored in home_leo and the result of update_from_home
\* variant of update_from_home: a home ahead of the leader is not an error
update_from_home_accepts_greater(ll, old_home_leo, new_home_leo) ==
    LET booted == IF old_home_leo < 0 THEN new_home_leo ELSE old_home_leo
    IN  IF new_home_leo # ll
            THEN [home_leo |-> new_home_leo, result |-> "true"]
        ELSE [home_leo |-> booted, result |-> "false"]

\* variant of update_from_home: a home behind the leader is not refreshed
update_from_home_no_refresh(ll, old_home_leo, new_home_leo) ==
    LET booted == IF old_home_leo < 0 THEN new_home_leo ELSE old_home_leo
    IN  IF new_home_leo > ll
            THEN [home_leo |-> booted, result |-> "Err"]
        ELSE IF new_home_leo < ll
            THEN [home_leo |-> new_home_leo, result |-> "false"]
        ELSE [home_leo |-> booted, result |-> "false"]

update_from_home(ll, old_home_leo, new_home_leo) ==
    LET booted == IF old_home_leo < 0 THEN new_home_leo ELSE old_home_leo
    IN  IF new_home_leo > ll
            THEN [home_leo |-> booted, result |-> "Err"]
        ELSE IF new_home_leo < ll
            THEN [home_leo |-> new_home_leo, result |-> "true"]
        ELSE [home_leo |-> booted, result |-> "false"]

\* ------------------------------------------------------ generate_home_sync
\* what generate_home_sync does with the leader offset it read
\* variant of generate_home_sync: no early return when home has caught up
generate_home_sync_no_caught_up(leo, hleo) ==
    IF leo >= hleo THEN "Read" ELSE "Err"

\* variant of generate_home_sync: a leader behind home_leo is read as well
generate_home_sync_reads_when_behind(leo, hleo) ==
    IF leo = hleo THEN "None" ELSE "Read"

generate_home_sync(leo, hleo) ==
    IF leo = hleo THEN "None"
    ELSE IF leo > hleo THEN "Read"
    ELSE "Err"

\* variant of update_needed: the flag alone decides
update_needed_flag_only(flag, hleo) == flag

\* the guard of update_home at the top of the sync loop
update_needed(flag, hleo) == flag /\ hleo >= 0

\* top of the sync loop, up to the first suspension point
LoopTop ==
    /\ pc = "loop_top"
    /\ IF update_needed(home_updated_needed, home_leo)
         THEN LET kind == generate_home_sync(leader_leo, home_leo)
              IN  IF kind = "None"
                    THEN /\ home_updated_needed' = FALSE
                         /\ home_leo_snap' = home_leo
                         /\ pc' = "select"
                         /\ UNCHANGED <<partition_response, conn_open>>
                  ELSE IF kind = "Read"
                    THEN /\ partition_response' =
                               [NoResponse EXCEPT !.leo = leader_leo,
                                                  !.hw = leader_hw]
                         /\ home_leo_snap' = home_leo
                         /\ pc' = "read"
                         /\ UNCHANGED <<home_updated_needed, conn_open>>
                  ELSE ReturnErr
         ELSE /\ home_leo_snap' = home_leo
              /\ pc' = "select"
              /\ UNCHANGED <<home_updated_needed, partition_response,
                             conn_open>>
    /\ UNCHANGED <<leader, listener_last, env, home, metrics, sink,
                   got_update, start_failed, tls, last_req,
                   retry>>

\* leader.read_records(home_leo, max_bytes, isolation) returned a slice
\* variant of ReadRecordsOk: the read starts one record before home_leo
ReadRecordsOk_one_before ==
    /\ pc = "read"
    /\ \E len \in ReadLens(home_leo_snap) :
          partition_response' =
              [partition_response EXCEPT !.start = home_leo_snap - 1,
                                         !.len = len]
    /\ pc' = "write"
    /\ UNCHANGED <<leader, listener_last, env, home, metrics,
                   home_updated_needed, home_leo_snap, conn, last_req,
                   retry>>

ReadRecordsOk ==
    /\ pc = "read"
    /\ \E len \in ReadLens(home_leo_snap) :
          partition_response' =
              [partition_response EXCEPT !.start = home_leo_snap,
                                         !.len = len]
    /\ pc' = "write"
    /\ UNCHANGED <<leader, listener_last, env, home, metrics,
                   home_updated_needed, home_leo_snap, conn, last_req,
                   retry>>

ReadRecordsErr ==
    /\ pc = "read"
    /\ ReturnErr
    /\ UNCHANGED <<leader, listener_last, env, home, metrics, sink,
                   got_update, start_failed, tls, last_req,
                   retry>>

\* ------------------------------------------------------ update_home
FilePartitionSyncRequest(r) ==
    [type |-> "FilePartitionSyncRequest", leo |-> r.leo, hw |-> r.hw,
     start |-> r.start, len |-> r.len]

\* variant of WriteSyncOk: home_leo is advanced by the records just sent
WriteSyncOk_optimistic ==
    /\ pc = "write"
    /\ Len(sink) < MaxSink
    /\ sink' = Append(sink, FilePartitionSyncRequest(partition_response))
    /\ home_leo' = partition_response.start + partition_response.len
    /\ home_updated_needed' = FALSE
    /\ partition_response' = NoResponse
    /\ pc' = "select"
    /\ UNCHANGED <<leader, listener_last, env, home, loop_count,
                   connect_count, connect_failure, home_leo_snap,
                   conn_open, got_update, start_failed, tls, last_req,
                   retry>>

\* sink.encode_file_slices succeeded
\* variant of WriteSyncOk: the flag stays set after the request is written
WriteSyncOk_keeps_flag ==
    /\ pc = "write"
    /\ Len(sink) < MaxSink
    /\ sink' = Append(sink, FilePartitionSyncRequest(partition_response))
    /\ partition_response' = NoResponse
    /\ pc' = "select"
    /\ UNCHANGED <<leader, listener_last, env, home, metrics,
                   home_updated_needed, home_leo_snap, conn_open, got_update,
                   start_failed, tls, last_req,
                   retry>>

WriteSyncOk ==
    /\ pc = "write"
    /\ Len(sink) < MaxSink
    /\ sink' = Append(sink, FilePartitionSyncRequest(partition_response))
    /\ home_updated_needed' = FALSE
    /\ partition_response' = NoResponse
    /\ pc' = "select"
    /\ UNCHANGED <<leader, listener_last, env, home, metrics, home_leo_snap,
                   conn_open, got_update, start_failed, tls, last_req,
                   retry>>

WriteSyncErr ==
    /\ pc = "write"
    /\ ReturnErr
    /\ UNCHANGED <<leader, listener_last, env, home, metrics, sink,
                   got_update, start_failed, tls, last_req,
                   retry>>

\* ------------------------------------------------------ select!
\* end of a loop iteration
increase_conn_count ==
    /\ connect_count < MaxCount
    /\ connect_count' = connect_count + 1

\* variant of ListenerFires: the listener reports one offset change per event
ListenerFires_per_change ==
    /\ pc = "select"
    /\ has_change
    /\ listener_last' = IF ListenedOffset > listener_last
                            THEN listener_last + 1
                            ELSE listener_last - 1
    /\ home_updated_needed' = TRUE
    /\ increase_conn_count
    /\ pc' = "loop_top"
    /\ UNCHANGED <<leader, env, home, loop_count, connect_failure, home_leo,
                   home_leo_snap, partition_response, conn, last_req,
                   retry>>

ListenerFires ==
    /\ pc = "select"
    /\ has_change
    /\ listener_last' = ListenedOffset
    /\ home_updated_needed' = TRUE
    /\ increase_conn_count
    /\ pc' = "loop_top"
    /\ UNCHANGED <<leader, env, home, loop_count, connect_failure, home_leo,
                   home_leo_snap, partition_response, conn, last_req,
                   retry>>

\* variant of RecvUpdateHomeOffset: the result is or-ed into the flag
RecvUpdateHomeOffset_keeps_flag(new_home_leo) ==
    /\ pc = "select"
    /\ LET r == update_from_home(leader_leo, home_leo, new_home_leo)
       IN  /\ home_leo' = r.home_leo
           /\ IF r.result = "Err"
                THEN /\ ReturnErr
                     /\ UNCHANGED connect_count
                ELSE /\ home_updated_needed' =
                            (home_updated_needed \/ r.result = "true")
                     /\ increase_conn_count
                     /\ pc' = "loop_top"
                     /\ UNCHANGED <<home_leo_snap, partition_response,
                                    conn_open>>
    /\ got_update' = TRUE
    /\ last_req' = new_home_leo
    /\ UNCHANGED <<leader, listener_last, env, home, loop_count,
                   connect_failure, sink, start_failed, tls,
                   retry>>

RecvUpdateHomeOffset(new_home_leo) ==
    /\ pc = "select"
    /\ LET r == update_from_home(leader_leo, home_leo, new_home_leo)
       IN  /\ home_leo' = r.home_leo
           /\ IF r.result = "Err"
                THEN /\ ReturnErr
                     /\ UNCHANGED connect_count
                ELSE /\ home_updated_needed' = (r.result = "true")
                     /\ increase_conn_count
                     /\ pc' = "loop_top"
                     /\ UNCHANGED <<home_leo_snap, partition_response,
                                    conn_open>>
    /\ got_update' = TRUE
    /\ last_req' = new_home_leo
    /\ UNCHANGED <<leader, listener_last, env, home, loop_count,
                   connect_failure, sink, start_failed, tls,
                   retry>>

RecvUpdate == \E l \in HomeLeos : RecvUpdateHomeOffset(l)

RecvDecodeError ==
    /\ pc = "select"
    /\ ReturnErr
    /\ UNCHANGED <<leader, listener_last, env, home, metrics, sink,
                   got_update, start_failed, tls, last_req,
                   retry>>

StreamEnd ==
    /\ pc = "select"
    /\ pc' = "eos_backoff"
    /\ UNCHANGED <<leader, listener_last, env, home, metrics, locals, conn,
                   last_req,
                   retry>>

\* variant of EosBackoff: the end of the stream is returned as an Err
EosBackoff_returns_err ==
    /\ pc = "eos_backoff"
    /\ backoff_and_wait("sync_err")
    /\ DropConnection
    /\ UNCHANGED <<leader, listener_last, env, home, loop_count,
                   connect_count, home_leo, sink, got_update, start_failed, tls,
                   last_req>>

\* backoff_and_wait, break, Ok(())
EosBackoff ==
    /\ pc = "eos_backoff"
    /\ backoff_and_wait("lookup")
    /\ DropConnection
    /\ UNCHANGED <<leader, listener_last, env, home, loop_count,
                   connect_count, home_leo, sink, got_update, start_failed, tls,
                   last_req>>

\* variant of SyncErrBackoff: dispatch_loop gives up after a failed sync loop
SyncErrBackoff_gives_up ==
    /\ pc = "sync_err"
    /\ backoff_and_wait("stopped")
    /\ UNCHANGED <<leader, listener_last, env, home, loop_count,
                   connect_count, home_leo, locals, conn, last_req>>

\* dispatch_loop after sync_mirror_loop returned Err
SyncErrBackoff ==
    /\ pc = "sync_err"
    /\ backoff_and_wait("lookup")
    /\ UNCHANGED <<leader, listener_last, env, home, loop_count,
                   connect_count, home_leo, locals, conn, last_req>>

\* ------------------------------------------------------ specification
Next ==
    \/ LeaderAppend
    \/ LeaderCommit
    \/ RegistryChange
    \/ StartupSleep
    \/ LookupFound
    \/ LookupMiss
    \/ LookupSleep
    \/ ConnectOk
    \/ ConnectFail
    \/ ConnectBackoff
    \/ HandshakeOk
    \/ HandshakeFail
    \/ LoopTop
    \/ ReadRecordsOk
    \/ ReadRecordsErr
    \/ WriteSyncOk
    \/ WriteSyncErr
    \/ ListenerFires
    \/ RecvUpdate
    \/ RecvDecodeError
    \/ StreamEnd
    \/ EosBackoff
    \/ SyncErrBackoff

Spec == Init /\ [][Next]_vars

\* ------------------------------------------------------ mirroring to a live home
\* The home peer of the integration test: the registry gets the Home entry,
\* the connection stays up, home takes the sync requests in order, appends
\* the records of a request that starts at its log end (its log is
\* append-only, a request that starts elsewhere adds nothing) and reports
\* its leo.  The per-event connect_count metric and the record of the
\* frames of the connection are left out here: they only bound the run.
MaxInflight == 1     \* sync requests the socket holds before the sink blocks

HomeRegistered ==
    /\ RegistryChange
    /\ mirror_store.kind # "Home"
    /\ mirror_store' = [kind |-> "Home", remote_id |-> "edge1"]

\* sink.encode_file_slices succeeded, the request is on its way to home
WriteSyncLive ==
    /\ pc = "write"
    /\ Len(inflight) < MaxInflight
    /\ inflight' = Append(inflight, [start |-> partition_response.start,
                                    len |-> partition_response.len])
    /\ home_updated_needed' = FALSE
    /\ partition_response' = NoResponse
    /\ pc' = "select"
    /\ UNCHANGED <<leader, listener_last, mirror_store, home_replica_leo,
                   home, metrics, home_leo_snap, conn, last_req,
                   retry>>

ListenerFiresLive ==
    /\ pc = "select"
    /\ has_change
    /\ listener_last' = ListenedOffset
    /\ home_updated_needed' = TRUE
    /\ pc' = "loop_top"
    /\ UNCHANGED <<leader, env, home, metrics, home_leo_snap,
                   partition_response, conn, last_req,
                   retry>>

\* home sends UpdateHomeOffsetRequest{leo: its leo} and the controller
\* processes it
HomeReports ==
    /\ pc = "select"
    /\ LET r == update_from_home(leader_leo, home_leo, home_replica_leo)
       IN  /\ home_leo' = r.home_leo
           /\ IF r.result = "Err"
                THEN ReturnErr
                ELSE /\ home_updated_needed' = (r.result = "true")
                     /\ pc' = "loop_top"
                     /\ UNCHANGED <<home_leo_snap, partition_response,
                                    conn_open>>
    /\ got_update' = TRUE
    /\ last_req' = home_replica_leo
    /\ UNCHANGED <<leader, listener_last, env, home, loop_count,
                   connect_count, connect_failure, sink, start_failed, tls,
                   retry>>

\* home takes the next sync request
HomeApplies ==
    /\ inflight # <<>>
    /\ LET f == Head(inflight)
       IN  home_replica_leo' =
               IF f.start = home_replica_leo
                   THEN home_replica_leo + f.len
                   ELSE home_replica_leo
    /\ inflight' = Tail(inflight)
    /\ UNCHANGED <<pc, leader, listener_last, mirror_store, home, metrics,
                   locals, conn, last_req,
                   retry>>

LiveNext ==
    \/ LeaderAppend
    \/ LeaderCommit
    \/ HomeRegistered
    \/ StartupSleep
    \/ LookupFound
    \/ LookupMiss
    \/ LookupSleep
    \/ ConnectOk
    \/ HandshakeOk
    \/ LoopTop
    \/ ReadRecordsOk
    \/ WriteSyncLive
    \/ ListenerFiresLive
    \/ HomeReports
    \/ HomeApplies

\* a step of the controller task; at select! the step is a listener event or
\* the next UpdateHomeOffsetRequest, which home sends periodically
TaskLive ==
    \/ StartupSleep
    \/ LookupFound
    \/ LookupMiss
    \/ LookupSleep
    \/ ConnectOk
    \/ HandshakeOk
    \/ LoopTop
    \/ ReadRecordsOk
    \/ WriteSyncLive
    \/ ListenerFiresLive
    \/ HomeReports

\* the task runs whenever it can take a step, home takes what it is sent,
\* the SC registers the home cluster and the leader commits what it holds
LiveFairness ==
    /\ WF_vars(TaskLive)
    /\ WF_vars(HomeApplies)
    /\ WF_vars(HomeRegistered)
    /\ WF_vars(LeaderCommit)

LiveSpec == Init /\ [][LiveNext]_vars /\ LiveFairness

\* ------------------------------------------------------ supervision
\* a step of the spawned task: dispatch_loop and all it calls
TaskNext ==
    \/ StartupSleep
    \/ LookupFound
    \/ LookupMiss
    \/ LookupSleep
    \/ ConnectOk
    \/ ConnectFail
    \/ ConnectBackoff
    \/ HandshakeOk
    \/ HandshakeFail
    \/ LoopTop
    \/ ReadRecordsOk
    \/ ReadRecordsErr
    \/ WriteSyncOk
    \/ WriteSyncErr
    \/ ListenerFires
    \/ RecvUpdate
    \/ RecvDecodeError
    \/ StreamEnd
    \/ EosBackoff
    \/ SyncErrBackoff

\* the task with every failure it can meet; the home entry, once registered,
\* stays in the registry; the high watermark plays no part in supervision
SupNext ==
    \/ LeaderAppend
    \/ HomeRegistered
    \/ TaskNext

\* the task is scheduled, the home cluster gets registered, and a connect
\* that is tried again and again succeeds
SupFairness ==
    /\ WF_vars(TaskNext)
    /\ WF_vars(HomeRegistered)
    /\ SF_vars(ConnectOk)

SupSpec == Init /\ [][SupNext]_vars /\ SupFairness

\* ------------------------------------------------------ backoff
\* one more failure in a row: backoff.wait() of backoff_and_wait, the metric
\* and the caller left aside
BackoffWait ==
    /\ backoff.count < MaxWaits
    /\ slept' = backoff.delay
    /\ backoff' = wait(backoff)
    /\ UNCHANGED <<pc, leader, listener_last, env, home, metrics, locals,
                   conn, last_req>>

BackoffNext == BackoffWait

BackoffSpec == Init /\ [][BackoffNext]_vars

\* ------------------------------------------------------ properties
SyncFrames == {i \in 1..Len(sink) : sink[i].type = "FilePartitionSyncRequest"}

\* this step writes a FilePartitionSyncRequest to the sink
SyncWritten ==
    /\ Len(sink') = Len(sink) + 1
    /\ sink'[Len(sink')].type = "FilePartitionSyncRequest"

LastFrame == sink'[Len(sink')]

\* C1: once home_leo is known it never exceeds the leader's leo
C1_HomeLeoAtMostLeaderLeo ==
    home_leo >= 0 => home_leo <= leader_leo

\* C2: a FilePartitionSyncRequest is on the sink of a connection only after
\* an UpdateHomeOffsetRequest was received on that connection
C2_NoSyncBeforeUpdate ==
    SyncFrames # {} => got_update

\* C3: home_leo never decreases from one state to the next
C3_HomeLeoMonotonic ==
    [][home_leo' >= home_leo]_vars

\* C3 (amended): home_leo never decreases, except in the step that processes
\* an UpdateHomeOffsetRequest whose leo is below the stored home_leo and below
\* the leader's leo, and then home_leo becomes that leo
C3_HomeLeoDecreasesOnlyByLowerReport ==
    [][\/ home_leo' >= home_leo
       \/ \E l \in HomeLeos :
             /\ l < home_leo
             /\ l < leader_leo
             /\ RecvUpdateHomeOffset(l)
             /\ home_leo' = l]_vars

\* a sync that started above the stored home_leo was written on this
\* connection: home_leo has been lowered by a later report
C3_Witness ==
    /\ home_leo >= 0
    /\ last_req = home_leo
    /\ \E i \in SyncFrames : sink[i].start > home_leo

\* C4: after an UpdateHomeOffsetRequest{leo} with leo <= leader_leo is
\* processed, the stored home_leo is that leo
C4_StoredEqualsReported ==
    [][\A l \in HomeLeos :
          (l <= leader_leo /\ RecvUpdateHomeOffset(l)) => home_leo' = l]_vars

\* C5: the records of every FilePartitionSyncRequest written start at the leo
\* of the last UpdateHomeOffsetRequest processed
C5_SyncStartsAtLastReported ==
    [][SyncWritten => LastFrame.start = last_req]_vars

\* C6: the records of a FilePartitionSyncRequest are those read at
\* [home_leo, home_leo + len), home_leo being the value read at the top of
\* the loop iteration, with home_leo + len <= leader_leo when they are read
C6_RecordsWithinRange ==
    [][/\ (pc = "loop_top" /\ pc' = "read") => home_leo_snap' = home_leo
       /\ (pc = "read" /\ pc' = "write") =>
             /\ home_leo_snap' = home_leo_snap
             /\ partition_response'.start = home_leo_snap
             /\ partition_response'.len >= 0
             /\ partition_response'.start + partition_response'.len
                    <= leader_leo
       /\ SyncWritten =>
             /\ pc = "write"
             /\ LastFrame.start = partition_response.start
             /\ LastFrame.len = partition_response.len
             /\ LastFrame.start = home_leo_snap
             /\ LastFrame.start >= 0
             /\ LastFrame.start + LastFrame.len <= leader_leo]_vars

C6_Witness ==
    \E i \in SyncFrames : sink[i].start > 0 /\ sink[i].len > 0

\* C7: the first frame of a connection is the StartMirrorRequest of the Home
\* that was looked up and of the leader's replica, every later frame is a
\* FilePartitionSyncRequest, and nothing is written when the
\* StartMirrorRequest failed
C7_StartMirrorFirst ==
    /\ (conn_open /\ sink # <<>>) =>
          /\ sink[1].type = "StartMirrorRequest"
          /\ sink[1].remote_cluster_id = home.remote_id
          /\ sink[1].remote_replica = LeaderId
    /\ sink # <<>> =>
          /\ sink[1].type = "StartMirrorRequest"
          /\ \A i \in 2..Len(sink) : sink[i].type = "FilePartitionSyncRequest"
    /\ start_failed => sink = <<>>

C7_Witness ==
    /\ conn_open
    /\ loop_count >= 2
    /\ home.remote_id = "edge2"
    /\ Len(sink) >= 2

\* C8: an UpdateHomeOffsetRequest{leo} with leo > leader_leo makes the sync
\* loop return Err and drops the connection; nothing is written on a dropped
\* connection, and from the error the supervisor only goes back to the lookup
C8_HomeAheadClosesConnection ==
    [][/\ \A l \in HomeLeos :
             (l > leader_leo /\ RecvUpdateHomeOffset(l)) =>
                 (pc' = "sync_err" /\ ~conn_open' /\ sink' = sink)
       /\ pc = "sync_err" =>
             (pc' \in {"sync_err", "lookup"} /\ ~conn_open' /\ sink' = sink)
       /\ ~conn_open => (sink' = sink \/ (pc = "connect" /\ sink' = <<>>))]_vars

C8_Witness ==
    /\ pc = "lookup"
    /\ got_update
    /\ last_req > leader_leo
    /\ ~conn_open

\* C9: no FilePartitionSyncRequest is written while leader_leo = home_leo, and
\* update_home with home_leo equal to the leader's leo writes nothing
C9_NoSyncWhenCaughtUp ==
    [][/\ leader_leo = home_leo => ~SyncWritten
       /\ (/\ pc = "loop_top"
           /\ update_needed(home_updated_needed, home_leo)
           /\ leader_leo = home_leo
           /\ pc' # pc) =>
             (pc' = "select" /\ sink' = sink /\ ~home_updated_needed')]_vars

C9_Witness ==
    /\ pc = "loop_top"
    /\ home_updated_needed
    /\ home_leo >= 0
    /\ leader_leo = home_leo

\* C11: under LiveSpec every record appended to the leader eventually is in
\* the home replica: once the leader's leo is at least n, home's leo becomes
\* at least n, also when the gap takes several batches of MaxBatch records
C11_HomeCatchesUp ==
    \A n \in 1..MaxLeo : (leader_leo >= n) ~> (home_replica_leo >= n)

C11_Witness ==
    /\ leader_leo >= 2
    /\ home_replica_leo = leader_leo
    /\ inflight = <<>>
    /\ pc = "select"

\* the task waits at a step whose metric has reached the cap of the model
AtCap ==
    \/ pc \in {"connect_backoff", "sync_err", "eos_backoff"}
          /\ connect_failure = MaxFailure
    \/ pc = "connect" /\ connect_count = MaxCount
    \/ pc = "lookup" /\ loop_count = MaxLoop

\* the step that follows the return of sync_mirror_loop
ReturnGoesToLookup ==
    (pc \in {"sync_err", "eos_backoff"} /\ pc' # pc)
        => (pc' = "lookup" /\ ~conn_open')

\* C12: dispatch_loop never ends: the task always has a next step, a sync loop
\* that returned (Err, or Ok after the end of the stream) is followed by the
\* lookup step with the socket dropped, and under SupSpec a new connection is
\* established afterwards (up to the caps of the metrics)
C12_SupervisorNeverStops ==
    /\ [](AtCap \/ ENABLED TaskNext)
    /\ [][ReturnGoesToLookup]_vars
    /\ (pc \in {"sync_err", "eos_backoff"})
          ~> ((pc = "handshake" /\ conn_open) \/ AtCap)

C12_Witness ==
    /\ pc = "handshake"
    /\ conn_open
    /\ connect_failure >= 1
    /\ loop_count >= 2

\* a step in which one of the calls of sync_mirror_loop fails
ErrorStep ==
    \/ HandshakeFail
    \/ RecvDecodeError
    \/ RecvUpdate /\ last_req' > leader_leo
    \/ LoopTop /\ update_needed(home_updated_needed, home_leo)
               /\ leader_leo < home_leo
    \/ ReadRecordsErr
    \/ WriteSyncErr

\* what follows an error of the sync loop, up to the next handshake
ErrorHandling ==
    /\ ErrorStep =>
          /\ pc' = "sync_err"
          /\ ~conn_open'
          /\ sink' = sink
          /\ connect_failure' = connect_failure
    /\ pc = "sync_err" =>
          \/ UNCHANGED <<pc, connect_failure>>
          \/ pc' = "lookup" /\ connect_failure' = connect_failure + 1
    /\ ~conn_open =>
          \/ sink' = sink /\ ~conn_open'
          \/ pc = "connect" /\ pc' = "handshake" /\ conn_open' /\ sink' = <<>>
    /\ (pc = "lookup" /\ pc' # pc) => pc' \in {"lookup_sleep", "connect"}
    /\ (pc = "handshake" /\ sink' # sink) =>
          sink' = <<StartMirrorRequest(home)>>

\* C13: each failing call of the sync loop ends it with Err and the socket
\* dropped; nothing is written until the next connection; the step after the
\* Err is one backoff that adds one to connect_failure and leads to the lookup;
\* the next connection starts with the StartMirrorRequest
C13_ErrorEndsConnection == [][ErrorHandling]_vars

C13_Witness ==
    /\ pc = "loop_top"
    /\ conn_open
    /\ connect_failure = 1
    /\ loop_count = 2
    /\ home_leo > leader_leo
    /\ sink = <<StartMirrorRequest(home)>>

\* the end of the home stream, and the count of the outer iterations
StreamEndHandling ==
    /\ (pc = "select" /\ pc' = "eos_backoff") =>
          UNCHANGED <<metrics, sink, conn_open>>
    /\ pc = "eos_backoff" =>
          \/ UNCHANGED <<pc, metrics, sink, conn_open>>
          \/ /\ pc' = "lookup"
             /\ connect_failure' = connect_failure + 1
             /\ ~conn_open'
             /\ UNCHANGED <<loop_count, connect_count, home_leo, sink>>
    /\ (pc = "lookup" /\ pc' = "connect") => loop_count' = loop_count + 1
    /\ loop_count' # loop_count => (pc = "lookup" /\ pc' = "connect")

\* C14: when home closes the stream the sync loop waits one backoff, which
\* adds one to connect_failure, and ends with Ok: the next step of the task is
\* the lookup, with no further backoff; loop_count grows by one exactly in the
\* iterations whose lookup finds the home cluster
C14_StreamEndOneBackoff == [][StreamEndHandling]_vars

C14_Witness ==
    /\ pc = "eos_backoff"
    /\ conn_open
    /\ connect_failure = 0
    /\ loop_count = 1
    /\ SyncFrames # {}

\* the program points inside sync_mirror_loop
InSyncLoop ==
    pc \in {"handshake", "loop_top", "read", "write", "select", "eos_backoff"}

\* the steps of create_socket_to_home
ConnectorStep ==
    /\ (pc = "connect" /\ pc' # pc) =>
          /\ connect_count' = connect_count + 1
          /\ connect_failure' = connect_failure
          /\ \/ pc' = "handshake" /\ conn_open' /\ ~tls'
             \/ pc' = "connect_backoff" /\ ~conn_open'
    /\ (pc = "connect_backoff" /\ pc' # pc) =>
          /\ pc' = "connect"
          /\ connect_failure' = connect_failure + 1
          /\ connect_count' = connect_count
          /\ ~conn_open'

\* C15: create_socket_to_home counts every attempt in connect_count, waits one
\* backoff after a failed attempt and tries again, and is left only with a
\* connected socket and tls false; the sync loop always holds an open socket
C15_ConnectorNeverFails ==
    /\ [](InSyncLoop => (conn_open /\ ~tls))
    /\ [][ConnectorStep]_vars

C15_Witness ==
    /\ pc = "handshake"
    /\ conn_open
    /\ ~tls
    /\ loop_count = 1
    /\ connect_count = 2
    /\ connect_failure = 1

\* the registry holds no Home entry under remote_config.home_cluster
NoHomeEntry == mirror_store.kind # "Home"

\* one poll of the registry by dispatch_loop
LookupStep ==
    /\ (pc = "lookup" /\ NoHomeEntry /\ pc' # pc) =>
          /\ pc' = "lookup_sleep"
          /\ UNCHANGED <<metrics, home, conn, mirror_store>>
    /\ (pc = "lookup_sleep" /\ pc' # pc) =>
          /\ pc' = "lookup"
          /\ UNCHANGED <<metrics, home, conn, mirror_store>>
    /\ (pc = "lookup" /\ ~NoHomeEntry /\ pc' # pc) =>
          /\ pc' = "connect"
          /\ loop_count' = loop_count + 1
          /\ home' = mirror_store
          /\ UNCHANGED <<connect_count, connect_failure, home_leo, conn>>

\* C16: a poll that finds no Home entry (no entry, or an entry of another
\* variant) only leads to the sleep and back to the next poll: no connect
\* attempt, nothing written, no metric changed; the poll and the sleep are
\* always possible; a poll that finds the entry adds one to loop_count and
\* goes to the connect attempt
C16_LookupMissOnlyPolls ==
    /\ [][LookupStep]_vars
    /\ []((pc = "lookup" /\ NoHomeEntry) => ENABLED LookupMiss)
    /\ [](pc = "lookup_sleep" => ENABLED LookupSleep)
    /\ []((pc = "lookup" /\ ~NoHomeEntry /\ loop_count < MaxLoop)
            => ENABLED LookupFound)

C16_Witness ==
    /\ pc = "lookup_sleep"
    /\ ~NoHomeEntry
    /\ loop_count = 0
    /\ connect_count = 0
    /\ sink = <<>>

\* home_leo over the life of the task
HomeLeoKept ==
    /\ home_leo >= 0 => home_leo' >= 0
    /\ pc # "select" => home_leo' = home_leo
    /\ (pc = "loop_top" /\ pc' \in {"read", "select"})
          => home_leo_snap' = home_leo

\* C17: home_leo is -1 when the controller is created; no step outside the
\* handling of an UpdateHomeOffsetRequest changes it, so a new connection reads
\* the value the previous one left; once it is 0 or more it stays 0 or more
C17_HomeLeoSurvivesReconnect ==
    /\ home_leo = -1
    /\ [](home_leo >= -1)
    /\ [][HomeLeoKept]_vars

C17_Witness ==
    /\ pc = "select"
    /\ loop_count = 2
    /\ ~got_update
    /\ home_leo_snap = home_leo
    /\ home_leo >= 1

\* one event of select! with the home offset known and below the leader's leo
OneSyncPerEvent ==
    /\ (/\ pc = "loop_top"
        /\ update_needed(home_updated_needed, home_leo)
        /\ leader_leo > home_leo
        /\ pc' # pc) =>
          /\ pc' = "read"
          /\ partition_response'.leo = leader_leo
          /\ partition_response'.hw = leader_hw
          /\ home_leo_snap' = home_leo
    /\ (pc = "read" /\ pc' # pc) =>
          /\ pc' \in {"write", "sync_err"}
          /\ pc' = "write" =>
                /\ partition_response'.leo = partition_response.leo
                /\ partition_response'.hw = partition_response.hw
    /\ SyncWritten =>
          /\ pc = "write"
          /\ LastFrame.leo = partition_response.leo
          /\ LastFrame.hw = partition_response.hw
          /\ LastFrame.start = home_leo
          /\ ~home_updated_needed'
          /\ pc' = "select"
    /\ (~home_updated_needed /\ home_updated_needed') =>
          (pc = "select" /\ pc' = "loop_top")

\* C18: an event that leaves the flag set while home_leo is known and below
\* the leader's leo makes the loop build one request with the leader's leo and
\* hw of that moment and the records from home_leo on; writing it clears the
\* flag, and a request is built only with the flag set, which only a further
\* event of select! does
C18_OneSyncPerEvent ==
    /\ [](pc \in {"read", "write"} => home_updated_needed)
    /\ [][OneSyncPerEvent]_vars

C18_Witness ==
    /\ pc = "select"
    /\ leader_leo = 2
    /\ last_req = 0
    /\ Len(sink) = 2
    /\ sink[2].type = "FilePartitionSyncRequest"
    /\ sink[2].leo = 2
    /\ sink[2].start = 0
    /\ ~home_updated_needed
    /\ ~has_change

\* the top of a loop iteration, and an event while home_leo is unknown
LoopTopStep ==
    /\ (/\ pc = "loop_top"
        /\ ~(home_updated_needed /\ home_leo >= 0)
        /\ pc' # pc) =>
          /\ pc' = "select"
          /\ UNCHANGED <<home_updated_needed, partition_response, conn>>
    /\ (/\ pc = "loop_top"
        /\ home_updated_needed /\ home_leo >= 0
        /\ pc' # pc) =>
          \/ pc' = "read"
          \/ pc' = "select" /\ ~home_updated_needed' /\ sink' = sink
          \/ pc' = "sync_err"
    /\ (pc = "write" /\ pc' = "select") => ~home_updated_needed'
    /\ (pc = "select" /\ home_leo' = -1 /\ pc' = "loop_top") =>
          (home_updated_needed' /\ sink' = sink)

\* C19: the loop top calls update_home exactly when the flag is set and
\* home_leo is 0 or more, and the flag is clear when the call has succeeded;
\* while home_leo is -1 an event of the listener sets the flag and no
\* FilePartitionSyncRequest is built or written
C19_UpdateHomeGuard ==
    /\ [](home_leo = -1 => (SyncFrames = {} /\ pc \notin {"read", "write"}))
    /\ [][LoopTopStep]_vars

C19_Witness ==
    /\ pc = "select"
    /\ home_leo = -1
    /\ home_updated_needed
    /\ leader_leo >= 1
    /\ sink = <<StartMirrorRequest(home)>>

\* the listener arm of select! and the request that follows it
CoalescingStep ==
    /\ (/\ pc = "select"
        /\ pc' = "loop_top"
        /\ listener_last' # listener_last) =>
          /\ ~has_change'
          /\ home_updated_needed'
          /\ sink' = sink
    /\ pc \in {"loop_top", "read", "select"} => sink' = sink
    /\ (pc = "write" /\ pc' # pc) => pc' \in {"select", "sync_err"}
    /\ SyncWritten =>
          /\ sink' = Append(sink, LastFrame)
          /\ LastFrame.leo = partition_response.leo
          /\ LastFrame.start = home_leo
          /\ LastFrame.len <= MaxBatch
          /\ ~home_updated_needed'

C21_FlagIsResultOfUpdate ==
    [][(RecvUpdate /\ pc' = "loop_top")
          => home_updated_needed' = (last_req' < leader_leo)]_vars

C21_Witness ==
    /\ pc = "loop_top"
    /\ loop_count = 1
    /\ connect_failure = 0
    /\ connect_count = 3
    /\ listener_last >= 1
    /\ got_update
    /\ last_req = leader_leo
    /\ ~home_updated_needed

\* update_home with the leader behind home_leo, or with a failing read
UpdateHomeFails ==
    /\ (/\ pc = "loop_top"
        /\ home_updated_needed /\ home_leo >= 0
        /\ leader_leo < home_leo
        /\ pc' # pc) =>
          (pc' = "sync_err" /\ sink' = sink /\ ~conn_open')
    /\ (pc = "read" /\ pc' # pc /\ partition_response'.start < 0) =>
          (pc' = "sync_err" /\ sink' = sink /\ ~conn_open')
    /\ SyncWritten =>
          /\ leader_leo > home_leo
          /\ pc = "write"
          /\ partition_response.start = home_leo

\* C22: when update_home runs with the leader's leo below home_leo, or the
\* read of the local log fails, nothing is written, the sync loop returns Err
\* and the socket is dropped; a FilePartitionSyncRequest is written only with
\* the leader's leo above home_leo and after a read that succeeded
C22_NoSyncOnUpdateHomeError == [][UpdateHomeFails]_vars

C22_Witness ==
    /\ pc = "loop_top"
    /\ conn_open
    /\ home_updated_needed
    /\ home_leo >= 0
    /\ leader_leo < home_leo
    /\ sink = <<StartMirrorRequest(home)>>

\* C23: every delay the backoff hands out, after any number of failures in a
\* row, is at least 1 second and at most 300 seconds
C23_DelayWithinBounds ==
    /\ backoff.delay >= 1
    /\ backoff.delay <= 300
    /\ slept <= 300
    /\ backoff.count > 0 => slept >= 1

C23_Witness ==
    /\ backoff.count >= 10
    /\ slept = 300
    /\ backoff.delay = 300

\* C24: a step in which update_from_home rejects the request (its leo is
\* above the leader's leo) leaves the stored home_leo as it was
C24_RejectedUpdateKeepsHomeLeo ==
    [][(RecvUpdate /\ last_req' > leader_leo) => home_leo' = home_leo]_vars

\* C25: the leo field of every FilePartitionSyncRequest written is at least
\* the offset after the last record it carries
C25_LeoCoversRecords ==
    \A i \in SyncFrames : sink[i].leo >= sink[i].start + sink[i].len

\* C26: an offset change the listener has not reported stays pending, through
\* writes, backoffs, lookups and reconnects, until the listener arm of select!
\* takes it and sets the flag; with a change pending the arm is ready whenever
\* the loop is at select!
C26_NoChangeLost ==
    /\ [][(has_change /\ ~has_change')
            => (pc = "select" /\ pc' = "loop_top" /\ home_updated_needed')]_vars
    /\ []((pc = "select" /\ has_change /\ connect_count < MaxCount)
            => ENABLED ListenerFires)

C26_Witness ==
    /\ pc = "loop_top"
    /\ loop_count = 2
    /\ connect_failure = 1
    /\ connect_count = 3
    /\ ~got_update
    /\ home_updated_needed
    /\ listener_last = 2
    /\ ~has_change

\* C27: the backoff made before the retry loop is never made again or reset:
\* it has been advanced once per recorded failure, the delay slept and the
\* delay to sleep next never decrease, and after the first failure the next
\* delay is above the minimum whatever succeeded in between
BackoffNeverDecreases ==
    /\ slept' >= slept
    /\ backoff'.delay >= backoff.delay
    /\ backoff'.count >= backoff.count

C27_BackoffNeverReset ==
    /\ [][BackoffNeverDecreases]_vars
    /\ [](backoff.count = connect_failure)
    /\ [](connect_failure >= 1 => backoff.delay > BACKOFF_MIN_SEC)

C27_Witness ==
    /\ pc = "lookup"
    /\ connect_failure = 2
    /\ slept = 2
    /\ backoff.delay = 4
    /\ got_update
    /\ Len(sink) >= 2

\* C10: home_leo changes only in the step that processes an
\* UpdateHomeOffsetRequest
C10_HomeLeoOnlyFromHome ==
    [][home_leo' # home_leo => \E l \in HomeLeos : RecvUpdateHomeOffset(l)]_vars

C10_Witness ==
    /\ pc = "select"
    /\ \E i \in SyncFrames : sink[i].len > 0 /\ sink[i].start = home_leo

====
